---- MODULE Spec2Model ----
(***************************************************************************)
(* Model of the extraction result formatter (src/json_formatter.py):       *)
(* JSONFormatter._format_value, _create_summary, _extract_key_metrics,     *)
(* _validate_data_consistency, format_extraction_results and               *)
(* create_comparison_report, and of the router of the extraction API       *)
(* (src/updated_extractor_router.py): get_action_agent and the handlers    *)
(* of its endpoints.                                                       *)
(*                                                                         *)
(* Text is a sequence of one-character strings.  A Python float obtained   *)
(* from a short decimal literal is the record [neg, int, frac]: its sign   *)
(* bit (a float keeps the sign of zero), the digits of its integer part    *)
(* without leading zeros and the digits of its fraction without trailing   *)
(* zeros.  An optional value (Python's None) is a sequence of length 0 or  *)
(* 1.                                                                      *)
(***************************************************************************)
EXTENDS Integers, Sequences, FiniteSets, TLC

VARIABLES
    currency_symbol, \* JSONFormatter.currency_symbol
    now,             \* the reading of the clock, as datetime.now() gives it
    calls,           \* the format_extraction_results and create_comparison_report
                     \* calls that have ended
    value,           \* the argument of the current _format_value call
    record,          \* how that call ended (None until it has)
    extracted_data,  \* the argument of the current format_extraction_results call
    result,          \* how that call ended (None until it has)
    to_validate,     \* the argument of the current _validate_data_consistency call
    validation,      \* how that call ended (None until it has)
    to_compare,      \* the argument of the current create_comparison_report call
    comparison,      \* how that call ended (None until it has)
    action_agent,    \* the router's global agent (None until constructed)
    attempts,        \* how often the router has called ActionChatAgent()
    agents,          \* how many of these calls have returned an agent
    requests         \* the requests of the router, each with its endpoint,
                     \* its position in the handler and its response

\* the formatter and the clock, which no call of the formatter changes
fixed == <<currency_symbol, now>>

\* the router
router == <<action_agent, attempts, agents, requests>>

vars == <<fixed, calls, value, record, extracted_data, result, to_validate,
          validation, to_compare, comparison, router>>

\* how a call ends: it returns a value or raises an exception
Return(v) == [raised |-> FALSE, value |-> v]
Raise(e) == [raised |-> TRUE, exc |-> e]

None == <<>>
Some(x) == <<x>>
IsNone(o) == o = <<>>
Get(o) == o[1]

(***************************************************************************)
(* Bounds of the model.                                                    *)
(***************************************************************************)
\* longest raw string enumerated character by character
MaxLen == 4

\* most attributes of a mapping whose items take every order and value
MaxShort == 2

\* most reports of a list passed to create_comparison_report
MaxReports == 3

\* the number of requests the router receives
MaxRequests == 2

\* the number of calls in a session of one formatter
MaxCalls == 3

\* the last reading of the clock in a session
MaxClock == 1

\* the characters the enumerated raw strings are made of
Alphabet == {"$", ",", "U", "S", "D", "-", ".", "0", "5", "9", " "}

(***************************************************************************)
(* Text helpers.                                                           *)
(***************************************************************************)
Digits == {"0", "1", "2", "3", "4", "5", "6", "7", "8", "9"}

DigitVal(c) ==
    CASE c = "0" -> 0 [] c = "1" -> 1 [] c = "2" -> 2 [] c = "3" -> 3
      [] c = "4" -> 4 [] c = "5" -> 5 [] c = "6" -> 6 [] c = "7" -> 7
      [] c = "8" -> 8 [] c = "9" -> 9

DigitChar(d) == <<"0", "1", "2", "3", "4", "5", "6", "7", "8", "9">>[d + 1]

StartsWith(s, p) == Len(s) >= Len(p) /\ SubSeq(s, 1, Len(p)) = p

Drop(s, n) == SubSeq(s, n + 1, Len(s))

\* str.replace(old, ""): remove the non-overlapping occurrences, left to right
RECURSIVE Remove(_, _)
Remove(s, old) ==
    IF s = <<>> THEN <<>>
    ELSE IF StartsWith(s, old) THEN Remove(Drop(s, Len(old)), old)
    ELSE <<Head(s)>> \o Remove(Tail(s), old)

\* str.strip(): drop the surrounding whitespace
RECURSIVE LStrip(_)
LStrip(s) == IF s # <<>> /\ Head(s) = " " THEN LStrip(Tail(s)) ELSE s

RECURSIVE RStrip(_)
RStrip(s) ==
    IF s # <<>> /\ s[Len(s)] = " " THEN RStrip(SubSeq(s, 1, Len(s) - 1)) ELSE s

Strip(s) == RStrip(LStrip(s))

(***************************************************************************)
(* Raw values.  A raw value is a string, None, or a malformed object: one  *)
(* whose truth test raises (a multi-element array, say), one whose str()   *)
(* raises, or one whose str() raises while its __format__ works.           *)
(***************************************************************************)
Str(s) == [kind |-> "str", chars |-> s]
NoneValue == [kind |-> "none", chars |-> <<>>]
BadTruth == [kind |-> "badtruth", chars |-> <<>>]
BadStr == [kind |-> "badstr", chars |-> <<>>]
BadStrOnly == [kind |-> "badstr_only", chars |-> <<>>]

NOT_FOUND == <<"N", "O", "T", "_", "F", "O", "U", "N", "D">>
ERROR == <<"E", "R", "R", "O", "R">>

(***************************************************************************)
(* Digit sequences (most significant digit first, digits 0..9).            *)
(***************************************************************************)
RECURSIVE StripLeadingZeros(_)
StripLeadingZeros(d) ==
    IF d # <<>> /\ Head(d) = 0 THEN StripLeadingZeros(Tail(d)) ELSE d

RECURSIVE StripTrailingZeros(_)
StripTrailingZeros(d) ==
    IF d # <<>> /\ d[Len(d)] = 0
    THEN StripTrailingZeros(SubSeq(d, 1, Len(d) - 1))
    ELSE d

\* d + 1
RECURSIVE AddOne(_)
AddOne(d) ==
    IF d = <<>> THEN <<1>>
    ELSE IF d[Len(d)] < 9 THEN SubSeq(d, 1, Len(d) - 1) \o <<d[Len(d)] + 1>>
    ELSE AddOne(SubSeq(d, 1, Len(d) - 1)) \o <<0>>

\* d \div 2, by long division; carry is the remainder brought down
RECURSIVE HalfFrom(_, _)
HalfFrom(d, carry) ==
    IF d = <<>> THEN <<>>
    ELSE <<(10 * carry + Head(d)) \div 2>>
         \o HalfFrom(Tail(d), (10 * carry + Head(d)) % 2)

Half(d) == StripLeadingZeros(HalfFrom(d, 0))

\* floor(log2(d)) of a positive integer
RECURSIVE FloorLog2(_)
FloorLog2(d) == IF Half(d) = <<>> THEN 0 ELSE 1 + FloorLog2(Half(d))

\* 2^k mod 1000
RECURSIVE Pow2Mod1000(_)
Pow2Mod1000(k) == IF k = 0 THEN 1 ELSE (2 * Pow2Mod1000(k - 1)) % 1000

\* the least j with f * 2^j >= 1000, for 0 < f < 1000
RECURSIVE ShiftsToOne(_)
ShiftsToOne(f) == IF f >= 1000 THEN 0 ELSE 1 + ShiftsToOne(2 * f)

(***************************************************************************)
(* float(clean_value), line 69, on the strings of the model: an optional   *)
(* sign, then digits with at most one point and at least one digit.  Any   *)
(* other string raises ValueError (None here).  The exponent, underscore,  *)
(* inf and nan forms float() also accepts need characters outside          *)
(* Alphabet.                                                               *)
(***************************************************************************)
Unsigned(s) == IF s # <<>> /\ Head(s) \in {"-", "+"} THEN Tail(s) ELSE s

PointAt(s) == IF \E i \in 1..Len(s) : s[i] = "."
              THEN CHOOSE i \in 1..Len(s) : s[i] = "."
              ELSE Len(s) + 1

IsDecimalLiteral(s) ==
    LET u == Unsigned(s) IN
    /\ \A i \in 1..Len(u) : u[i] \in Digits \/ u[i] = "."
    /\ Cardinality({i \in 1..Len(u) : u[i] = "."}) <= 1
    /\ \E i \in 1..Len(u) : u[i] \in Digits

ToDigits(s) == [i \in 1..Len(s) |-> DigitVal(s[i])]

float(s) ==
    IF ~IsDecimalLiteral(s) THEN None
    ELSE LET u == Unsigned(s)
             p == PointAt(u)
         IN Some([neg  |-> s[1] = "-",
                  int  |-> StripLeadingZeros(ToDigits(SubSeq(u, 1, p - 1))),
                  frac |-> StripTrailingZeros(ToDigits(SubSeq(u, p + 1, Len(u))))])

IsZero(x) == x.int = <<>> /\ x.frac = <<>>

\* x == y on floats: 0.0 == -0.0
FloatEq(x, y) == (IsZero(x) /\ IsZero(y)) \/ x = y

\* x >= 0 on floats: -0.0 >= 0 is True
GeZero(x) == ~x.neg \/ IsZero(x)

\* abs(x)
Abs(x) == [x EXCEPT !.neg = FALSE]

(***************************************************************************)
(* format(x, ",.2f"): the float rounded to two decimals, thousands         *)
(* separators in the integer part.  The third decimal decides the          *)
(* rounding, except on a decimal tie (a fraction d1 d2 5): there the       *)
(* binary value of the float decides.  With k = 52 - floor(log2 |x|) the   *)
(* float is M / 2^k for the integer M nearest to |x| * 2^k, so it lies     *)
(* above the tie iff (f * 2^k) mod 1000 > 500, f the three fraction        *)
(* digits; it is the tie exactly for f in {125, 375, 625, 875}, which      *)
(* round half to even.                                                     *)
(***************************************************************************)
FracDigit(x, i) == IF i <= Len(x.frac) THEN x.frac[i] ELSE 0

\* the tie of a float with the fraction f / 1000
TieOf(x, f) ==
    IF f \in {125, 375, 625, 875}
    THEN FracDigit(x, 2) % 2 = 1
    ELSE (f * Pow2Mod1000(52 - (IF x.int # <<>> THEN FloorLog2(x.int)
                                ELSE 0 - ShiftsToOne(f)))) % 1000 > 500

TieRoundsUp(x) == TieOf(x, 100 * FracDigit(x, 1) + 10 * FracDigit(x, 2) + 5)

RoundsUp(x) ==
    IF Len(x.frac) <= 2 THEN FALSE
    ELSE IF x.frac[3] # 5 THEN x.frac[3] > 5
    ELSE IF Len(x.frac) > 3 THEN TRUE
    ELSE TieRoundsUp(x)

\* the digits of round(|x| * 100)
Cents(x) ==
    IF RoundsUp(x)
    THEN AddOne(x.int \o <<FracDigit(x, 1), FracDigit(x, 2)>>)
    ELSE x.int \o <<FracDigit(x, 1), FracDigit(x, 2)>>

\* digits to text with a comma before every group of three
RECURSIVE Grouped(_)
Grouped(d) ==
    IF Len(d) <= 3 THEN [i \in 1..Len(d) |-> DigitChar(d[i])]
    ELSE Grouped(SubSeq(d, 1, Len(d) - 3)) \o <<",">>
         \o [i \in 1..3 |-> DigitChar(d[Len(d) - 3 + i])]

\* the integer part of an amount, "0" when it has no digits
WholeText(whole) == IF whole = <<>> THEN <<"0">> ELSE Grouped(whole)

\* an amount of c cents, with its sign
CentsText(neg, c) ==
    (IF neg THEN <<"-">> ELSE <<>>)
    \o WholeText(StripLeadingZeros(SubSeq(c, 1, Len(c) - 2)))
    \o <<".", DigitChar(c[Len(c) - 1]), DigitChar(c[Len(c)])>>

Fixed2(x) == CentsText(x.neg, Cents(x))

(***************************************************************************)
(* JSONFormatter._format_value                                             *)
(***************************************************************************)
\* IsNotFound with the string stripped before the test
IsNotFoundStripped(v) ==
    \/ v.kind = "none"
    \/ v.kind = "str" /\ Strip(v.chars) \in {<<>>, NOT_FOUND, ERROR}

\* line 54
IsNotFound(v) ==
    \/ v.kind = "none"
    \/ v.kind = "str" /\ v.chars \in {<<>>, NOT_FOUND, ERROR}

\* CleanValue with "US" removed before "USD"
CleanValueUSFirst(s) ==
    Strip(Remove(Remove(Remove(Remove(s, <<"$">>), <<",">>),
                        <<"U", "S">>), <<"U", "S", "D">>))

\* line 65
CleanValue(s) ==
    Strip(Remove(Remove(Remove(Remove(s, <<"$">>), <<",">>),
                        <<"U", "S", "D">>), <<"U", "S">>))

\* line 70
FormattedCurrency(x) ==
    IF GeZero(x) THEN <<"$">> \o Fixed2(x) ELSE <<"-", "$">> \o Fixed2(Abs(x))

Record(raw, formatted, numeric, currency, status) ==
    [raw_value |-> raw, formatted_value |-> formatted, numeric_value |-> numeric,
     currency |-> currency, status |-> status]

FormatError(v) == Record(v, None, None, None, "format_error")

\* lines 70-88: the record of a value cleaned to clean_value, which parsed
\* as numeric_value or failed to parse
FormatParsed(v, clean_value, numeric_value, unparsed_currency) ==
    IF ~IsNone(numeric_value)
    THEN Record(v, Some(FormattedCurrency(Get(numeric_value))),
                numeric_value, Some("USD"), "extracted")
    ELSE Record(v, Some(clean_value), None, unparsed_currency,
                "extracted_non_numeric")

\* lines 69-88
FormatCleaned(v, clean_value, unparsed_currency) ==
    FormatParsed(v, clean_value, float(clean_value), unparsed_currency)

\* FormatPresent with the currency kept on the non-numeric branch
FormatPresentKeepsCurrency(v) == FormatCleaned(v, CleanValue(v.chars), Some("USD"))

\* lines 65-88: the try block, for a value that has a str()
FormatPresent(v) == FormatCleaned(v, CleanValue(v.chars), None)

\* lines 90-98: the handler formats the value into its log message (line
\* 91) before it returns; a value whose str() raised raises there again,
\* unless it has a __format__ of its own
HandleFormatFailure(v) ==
    IF v.kind = "badstr" THEN Raise("TypeError") ELSE Return(FormatError(v))

\* line 54 runs outside the try block: the truth test of a value that has
\* none raises to the caller
_format_value(v) ==
    IF v.kind = "badtruth" THEN Raise("ValueError")
    ELSE IF IsNotFound(v) THEN Return(Record(v, None, None, None, "not_found"))
    ELSE IF v.kind \in {"badstr", "badstr_only"} THEN HandleFormatFailure(v)
    ELSE Return(FormatPresent(v))

(***************************************************************************)
(* Dictionaries.  extracted_data and formatted_data are Python dicts read  *)
(* in insertion order: sequences of [attribute, value] items with distinct *)
(* attributes.  A dict that is only looked up by key is a function.        *)
(***************************************************************************)
Item(a, v) == [attribute |-> a, value |-> v]

Keys(d) == {d[i].attribute : i \in 1..Len(d)}

Lookup(d, a) == d[CHOOSE i \in 1..Len(d) : d[i].attribute = a].value

EmptyDict == [k \in {} |-> k]

\* the first n elements: list[:n]
Take(l, n) == SubSeq(l, 1, IF Len(l) < n THEN Len(l) ELSE n)

(***************************************************************************)
(* Order of floats, for list.sort and the range checks.                    *)
(***************************************************************************)
\* digit sequences of equal length, compared left to right
RECURSIVE LexLess(_, _)
LexLess(a, b) ==
    IF a = <<>> THEN FALSE
    ELSE IF Head(a) # Head(b) THEN Head(a) < Head(b)
    ELSE LexLess(Tail(a), Tail(b))

PadRight(d, n) == d \o [i \in 1..(n - Len(d)) |-> 0]

MaxOf(m, n) == IF m < n THEN n ELSE m

\* |x| < |y|
MagLess(x, y) ==
    IF Len(x.int) # Len(y.int) THEN Len(x.int) < Len(y.int)
    ELSE LET n == MaxOf(Len(x.frac), Len(y.frac))
         IN LexLess(x.int \o PadRight(x.frac, n), y.int \o PadRight(y.frac, n))

\* x < y
FloatLess(x, y) ==
    IF IsZero(x) /\ IsZero(y) THEN FALSE
    ELSE IF x.neg # y.neg THEN x.neg
    ELSE IF x.neg THEN MagLess(y, x)
    ELSE MagLess(x, y)

Whole(d) == [neg |-> FALSE, int |-> d, frac |-> <<>>]

(***************************************************************************)
(* JSONFormatter._extract_key_metrics                                      *)
(***************************************************************************)
\* lines 141-151
key_mappings ==
    <<Item("Total Insured Value", "total_insured_value"),
      Item("Quoted Amount", "quoted_amount"),
      Item("Limit Amount", "limit_amount"),
      Item("Limit per occurrence", "limit_per_occurrence"),
      Item("Attachment Point", "attachment_point"),
      Item("Annual Premium", "annual_premium"),
      Item("100 % Annual Premium", "full_annual_premium"),
      Item("Premium due", "premium_due"),
      Item("100% layer premium w/o terrorism", "layer_premium_no_terrorism")>>

\* MetricPresent without the status test
MetricPresentAnyStatus(formatted_data, m) == m.attribute \in Keys(formatted_data)

\* lines 154-156: the mappings whose label is an extracted attribute
MetricPresent(formatted_data, m) ==
    /\ m.attribute \in Keys(formatted_data)
    /\ Lookup(formatted_data, m.attribute).status = "extracted"

_extract_key_metrics(formatted_data) ==
    LET hit == {i \in 1..Len(key_mappings) :
                    MetricPresent(formatted_data, key_mappings[i])}
        label(k) == key_mappings[CHOOSE i \in hit : key_mappings[i].value = k].attribute
    IN [k \in {key_mappings[i].value : i \in hit} |->
            [value     |-> Lookup(formatted_data, label(k)).numeric_value,
             formatted |-> Lookup(formatted_data, label(k)).formatted_value]]

(***************************************************************************)
(* JSONFormatter._create_summary                                           *)
(***************************************************************************)
\* line 124
TopN == 5

\* line 110
IsExtractedNumeric(item) ==
    item.value.status = "extracted" /\ ~IsNone(item.value.numeric_value)

\* lines 109-115: the extracted items, in iteration order
RECURSIVE NumericValues(_)
NumericValues(formatted_data) ==
    IF formatted_data = <<>> THEN <<>>
    ELSE (IF IsExtractedNumeric(Head(formatted_data))
          THEN <<Item(Head(formatted_data).attribute,
                      Get(Head(formatted_data).value.numeric_value))>>
          ELSE <<>>)
         \o NumericValues(Tail(formatted_data))

\* InsertDescending with e placed before the elements equal to it
RECURSIVE InsertBeforeEqual(_, _)
InsertBeforeEqual(l, e) ==
    IF l = <<>> THEN <<e>>
    ELSE IF ~FloatLess(e.value, Head(l).value) THEN <<e>> \o l
    ELSE <<Head(l)>> \o InsertBeforeEqual(Tail(l), e)

\* e into a list sorted by value, descending, after the elements not below it
RECURSIVE InsertDescending(_, _)
InsertDescending(l, e) ==
    IF l = <<>> THEN <<e>>
    ELSE IF FloatLess(Head(l).value, e.value) THEN <<e>> \o l
    ELSE <<Head(l)>> \o InsertDescending(Tail(l), e)

\* line 118: list.sort(key=value, reverse=True), a stable sort
RECURSIVE SortDescending(_)
SortDescending(l) ==
    IF l = <<>> THEN <<>>
    ELSE InsertDescending(SortDescending(SubSeq(l, 1, Len(l) - 1)), l[Len(l)])

\* a natural number in decimal
RECURSIVE NatText(_)
NatText(n) ==
    IF n < 10 THEN <<DigitChar(n)>> ELSE NatText(n \div 10) \o <<DigitChar(n % 10)>>

\* round(1000 * k / n), halves to even
RoundedTenths(k, n) ==
    LET q == (1000 * k) \div n
        r == (1000 * k) % n
    IN IF 2 * r > n \/ (2 * r = n /\ q % 2 = 1) THEN q + 1 ELSE q

\* ExtractionRate with an empty mapping formatted like any other
ExtractionRateUnguarded(k, n) ==
    IF n > 0
    THEN NatText(RoundedTenths(k, n) \div 10) \o <<".">>
         \o NatText(RoundedTenths(k, n) % 10) \o <<"%">>
    ELSE <<"0", ".", "0", "%">>

\* line 123: f"{(k/n*100):.1f}%" if n > 0 else "0%".  The quotient is exact
\* in the model; the float's error matters only on a tie, which needs n >= 16.
ExtractionRate(k, n) ==
    IF n > 0
    THEN NatText(RoundedTenths(k, n) \div 10) \o <<".">>
         \o NatText(RoundedTenths(k, n) % 10) \o <<"%">>
    ELSE <<"0", "%">>

_create_summary(formatted_data) ==
    LET numeric_values == NumericValues(formatted_data)
    IN [total_attributes_processed |-> Len(formatted_data),
        successful_extractions |-> Len(numeric_values),
        extraction_rate |-> ExtractionRate(Len(numeric_values), Len(formatted_data)),
        top_values |-> Take(SortDescending(numeric_values), TopN),
        key_insurance_metrics |-> _extract_key_metrics(formatted_data)]

(***************************************************************************)
(* A dict a caller passes, and an argument that is None instead.           *)
(***************************************************************************)
Dict(items) == [kind |-> "dict", items |-> items]
NotADict == [kind |-> "none", items |-> <<>>]

(***************************************************************************)
(* JSONFormatter._validate_data_consistency                                *)
(***************************************************************************)
\* lines 211, 213
OneMillion == Whole(<<1, 0, 0, 0, 0, 0, 0>>)
HundredBillion == Whole(<<1, 0, 0, 0, 0, 0, 0, 0, 0, 0, 0, 0>>)

\* f"${x:,.2f}"
Dollars(x) == <<"$">> \o Fixed2(x)

\* lines 177-180
Values(formatted_data) ==
    LET numeric_values == NumericValues(formatted_data)
    IN [a \in Keys(numeric_values) |-> Lookup(numeric_values, a)]

\* a numeric_value that is a float, as _format_value stores it; a report
\* built elsewhere may hold a string there
IsNumber(x) == "neg" \in DOMAIN x

\* x == y on such values: floats by value, strings by text, and a float is
\* never equal to a string
PyEq(x, y) ==
    IF IsNumber(x) /\ IsNumber(y) THEN FloatEq(x, y)
    ELSE IF IsNumber(x) \/ IsNumber(y) THEN FALSE
    ELSE x = y

\* EqualityRule that records a check entry for unequal values too
EqualityRuleAlwaysChecks(values, first, second, message) ==
    IF first \in DOMAIN values /\ second \in DOMAIN values
    THEN [checks |-> <<[check   |-> first \o " vs " \o second,
                        status  |-> IF PyEq(values[first], values[second])
                                    THEN "consistent" ELSE "inconsistent",
                        message |-> message]>>,
          warnings |-> IF PyEq(values[first], values[second]) THEN <<>>
                       ELSE << <<first \o " (">> \o Dollars(values[first])
                               \o <<") differs from " \o second \o " (">>
                               \o Dollars(values[second]) \o <<")">> >>]
    ELSE [checks |-> <<>>, warnings |-> <<>>]

\* lines 183-193 and 196-206: one equality rule
EqualityRule(values, first, second, message) ==
    IF first \in DOMAIN values /\ second \in DOMAIN values
    THEN IF PyEq(values[first], values[second])
         THEN [checks |-> <<[check   |-> first \o " vs " \o second,
                             status  |-> "consistent",
                             message |-> message]>>,
               warnings |-> <<>>]
         ELSE [checks |-> <<>>,
               warnings |-> << <<first \o " (">> \o Dollars(values[first])
                               \o <<") differs from " \o second \o " (">>
                               \o Dollars(values[second]) \o <<")">> >>]
    ELSE [checks |-> <<>>, warnings |-> <<>>]

RuleA(values) ==
    EqualityRule(values, "Quoted Amount", "Limit Amount",
                 "Quoted Amount equals Limit Amount as expected")

RuleB(values) ==
    EqualityRule(values, "Premium due", "Annual Premium",
                 "Premium due equals Annual Premium")

\* RuleC with the limits themselves outside the range
RuleCExclusive(values) ==
    IF "Total Insured Value" \in DOMAIN values
    THEN LET tiv == values["Total Insured Value"]
         IN IF ~FloatLess(OneMillion, tiv)
            THEN << <<"Total Insured Value seems low: ">> \o Dollars(tiv) >>
            ELSE IF ~FloatLess(tiv, HundredBillion)
            THEN << <<"Total Insured Value seems very high: ">> \o Dollars(tiv) >>
            ELSE <<>>
    ELSE <<>>

\* lines 209-214
RuleC(values) ==
    IF "Total Insured Value" \in DOMAIN values
    THEN LET tiv == values["Total Insured Value"]
         IN IF FloatLess(tiv, OneMillion)
            THEN << <<"Total Insured Value seems low: ">> \o Dollars(tiv) >>
            ELSE IF FloatLess(HundredBillion, tiv)
            THEN << <<"Total Insured Value seems very high: ">> \o Dollars(tiv) >>
            ELSE <<>>
    ELSE <<>>

\* lines 217-220
OverallStatus(errors, warnings) ==
    IF errors # <<>> THEN "failed"
    ELSE IF warnings # <<>> THEN "warnings"
    ELSE "passed"

\* an entry with the get() of a dict (line 179)
IsRecord(e) == "status" \in DOMAIN e

\* lines 192, 205: the ",.2f" format raises ValueError on a string; the
\* values are only formatted when they differ
EqualityRaises(values, first, second) ==
    /\ first \in DOMAIN values
    /\ second \in DOMAIN values
    /\ ~PyEq(values[first], values[second])
    /\ ~(IsNumber(values[first]) /\ IsNumber(values[second]))

\* line 211: < between a string and an integer raises TypeError
RangeRaises(values) ==
    /\ "Total Insured Value" \in DOMAIN values
    /\ ~IsNumber(values["Total Insured Value"])

\* an exception inside the try block, with what the rules had appended
Interrupted(e, warnings, checks) ==
    [raised |-> TRUE, exc |-> e, warnings |-> warnings, consistency_checks |-> checks]

\* Concluded with the rules recording their findings as errors
ConcludedWithErrors(warnings, checks) ==
    Return([status |-> OverallStatus(warnings, <<>>),
            warnings |-> <<>>,
            errors |-> warnings,
            consistency_checks |-> checks])

\* lines 216-220, after the rules have run
Concluded(warnings, checks) ==
    Return([status |-> OverallStatus(<<>>, warnings),
            warnings |-> warnings,
            errors |-> <<>>,
            consistency_checks |-> checks])

\* lines 208-220, after Rule A and Rule B have appended warnings and checks
RangeStep(values, warnings, checks) ==
    IF RangeRaises(values) THEN Interrupted("TypeError", warnings, checks)
    ELSE Concluded(warnings \o RuleC(values), checks)

\* lines 195-220, after Rule A has given a
PremiumStep(values, a) ==
    IF EqualityRaises(values, "Premium due", "Annual Premium")
    THEN Interrupted("ValueError", a.warnings, a.checks)
    ELSE RangeStep(values, a.warnings \o RuleB(values).warnings,
                   a.checks \o RuleB(values).checks)

\* lines 182-220
RunRules(values) ==
    IF EqualityRaises(values, "Quoted Amount", "Limit Amount")
    THEN Interrupted("ValueError", <<>>, <<>>)
    ELSE PremiumStep(values, RuleA(values))

\* lines 176-220: the try block
ValidateBody(data) ==
    IF data.kind # "dict" THEN Interrupted("AttributeError", <<>>, <<>>)
    ELSE IF \E i \in 1..Len(data.items) : ~IsRecord(data.items[i].value)
    THEN Interrupted("AttributeError", <<>>, <<>>)
    ELSE RunRules(Values(data.items))

\* lines 222-226: what the function returns when its try block ended as body
Caught(body) ==
    IF body.raised
    THEN Return([status |-> "error",
                 warnings |-> body.warnings,
                 errors |-> << <<"Validation error: ", body.exc>> >>,
                 consistency_checks |-> body.consistency_checks])
    ELSE body

\* _validate_data_consistency without its except clause
ValidateWithoutCatch(data) == ValidateBody(data)

\* lines 175, 222-226: try ... except Exception
_validate_data_consistency(data) == Caught(ValidateBody(data))

(***************************************************************************)
(* JSONFormatter.format_extraction_results                                 *)
(***************************************************************************)
\* lines 20-22: the loop stops at the first value whose formatting raises
\* the calls of format_extraction_results that have returned a success
\* report
Formatted ==
    {c \in calls : /\ c.op = "format_extraction_results"
                   /\ ~c.outcome.raised
                   /\ c.outcome.value.success}

\* Fresh with the dict kept on the formatter from an earlier call
KeptBetweenCalls ==
    IF Formatted = {} THEN <<>>
    ELSE (CHOOSE c \in Formatted : TRUE).outcome.value.extracted_data

\* line 18: the dict the loop fills is created by the call
Fresh == <<>>

\* the loop over items whose values are formatted as formatted
Collected(items, formatted) ==
    IF \E i \in 1..Len(items) : formatted[i].raised
    THEN formatted[CHOOSE i \in 1..Len(items) :
                      /\ formatted[i].raised
                      /\ \A j \in 1..(i - 1) : ~formatted[j].raised]
    ELSE Return(Fresh \o [i \in 1..Len(items) |->
                             Item(items[i].attribute, formatted[i].value)])

FormatAll(items) ==
    Collected(items, [i \in 1..Len(items) |-> _format_value(items[i].value)])

\* lines 17-37: the body of the try block, called with the default file
\* names
\* lines 25-37, once the loop has ended as formatted_data
Structured(formatted_data) ==
    IF formatted_data.raised THEN formatted_data
    ELSE Return([success |-> TRUE,
                 extraction_timestamp |-> now,
                 source_files |-> [pdf_filename |-> "document.pdf",
                                   excel_filename |-> "attributes.xlsx"],
                 extracted_data |-> formatted_data.value,
                 summary |-> _create_summary(formatted_data.value),
                 validation |->
                     _validate_data_consistency(Dict(formatted_data.value)).value])

FormatBody(data) ==
    IF data.kind # "dict" THEN Raise("AttributeError")
    ELSE Structured(FormatAll(data.items))

\* lines 41-48
FailureReport(e) ==
    [success |-> FALSE,
     error |-> e,
     extraction_timestamp |-> now,
     extracted_data |-> <<>>,
     summary |-> EmptyDict,
     validation |-> [status |-> "failed", errors |-> <<e>>]]

\* lines 39-48: what the function returns when its try block ended as body
Reported(body) == IF body.raised THEN Return(FailureReport(body.exc)) ELSE body

\* format_extraction_results without its except clause
FormatWithoutCatch(data) == FormatBody(data)

\* lines 16, 39: try ... except Exception
format_extraction_results(data) == Reported(FormatBody(data))

(***************************************************************************)
(* JSONFormatter.create_comparison_report.  A report is a record; a key    *)
(* it lacks is a field it lacks.  A report that is None, and a             *)
(* source_files that is None, is the record NoneObject.  The result holds  *)
(* attribute_comparison as a function of the attribute: the order of its   *)
(* keys is the iteration order of a set of strings, which the code does    *)
(* not fix.                                                                *)
(***************************************************************************)
List(items) == [kind |-> "list", items |-> items]
NotAList == [kind |-> "none", items |-> <<>>]

NoneObject == [kind |-> "none"]

IsNoneObject(x) == "kind" \in DOMAIN x

\* "extracted_data" in extraction
HasData(extraction) == "extracted_data" \in DOMAIN extraction

\* "extracted_data" in extraction and attr in extraction["extracted_data"]
HasAttribute(extraction, attr) ==
    HasData(extraction) /\ attr \in Keys(extraction.extracted_data)

\* lines 244-247
AllAttributes(extractions) ==
    UNION {Keys(extractions[i].extracted_data) :
              i \in {j \in 1..Len(extractions) : HasData(extractions[j])}}

\* line 257: extraction.get("source_files", {}).get("pdf_filename", f"document_{i}")
DocumentName(extraction, i) ==
    IF /\ "source_files" \in DOMAIN extraction
       /\ "pdf_filename" \in DOMAIN extraction.source_files
    THEN extraction.source_files.pdf_filename
    ELSE "document_" \o ToString(i)

\* lines 257-260 raise AttributeError on a source_files or an entry without
\* get()
ElementRaises(extraction, attr) ==
    \/ "source_files" \in DOMAIN extraction /\ IsNoneObject(extraction.source_files)
    \/ ~IsRecord(Lookup(extraction.extracted_data, attr))

\* lines 255-261
Element(extraction, attr, i) ==
    LET data == Lookup(extraction.extracted_data, attr)
    IN [document_index |-> i,
        document_name |-> DocumentName(extraction, i),
        value |-> data.numeric_value,
        formatted |-> data.formatted_value,
        status |-> data.status]

\* AttrData with an element for every extraction that has extracted_data,
\* empty where the attribute is missing
RECURSIVE AttrDataPadded(_, _, _)
AttrDataPadded(extractions, attr, i) ==
    IF i >= Len(extractions) THEN <<>>
    ELSE (IF HasAttribute(extractions[i + 1], attr)
          THEN <<Element(extractions[i + 1], attr, i)>>
          ELSE IF HasData(extractions[i + 1])
          THEN <<[document_index |-> i,
                  document_name |-> DocumentName(extractions[i + 1], i),
                  value |-> None, formatted |-> None, status |-> "not_found"]>>
          ELSE <<>>)
         \o AttrDataPadded(extractions, attr, i + 1)

\* lines 251-261: the elements of attr from the extraction of index i on
RECURSIVE AttrData(_, _, _)
AttrData(extractions, attr, i) ==
    IF i >= Len(extractions) THEN <<>>
    ELSE (IF HasAttribute(extractions[i + 1], attr)
          THEN <<Element(extractions[i + 1], attr, i)>>
          ELSE <<>>)
         \o AttrData(extractions, attr, i + 1)

\* lines 236-265: the try block
CompareBody(extractions) ==
    IF \E i \in 1..Len(extractions) : IsNoneObject(extractions[i])
    THEN Raise("TypeError")
    ELSE IF \E i \in 1..Len(extractions) : \E attr \in AllAttributes(extractions) :
                HasAttribute(extractions[i], attr) /\ ElementRaises(extractions[i], attr)
    THEN Raise("AttributeError")
    ELSE Return([comparison_timestamp |-> now,
                 total_documents |-> Len(extractions),
                 attribute_comparison |->
                     [attr \in AllAttributes(extractions) |->
                         AttrData(extractions, attr, 0)],
                 summary_statistics |-> EmptyDict])

\* TooFew with one extraction taken as enough
TooFewOnlyEmpty(extractions) == Len(extractions) < 1

\* line 232
TooFew(extractions) == Len(extractions) < 2

\* lines 267-268: what the function returns when its try block ended as body
Compared(body) ==
    IF body.raised THEN Return([error |-> <<"Comparison error: ", body.exc>>])
    ELSE body

\* line 232 runs outside the try block: len() of None raises to the caller;
\* lines 235, 267: try ... except Exception
create_comparison_report(extractions) ==
    IF extractions.kind # "list" THEN Raise("TypeError")
    ELSE IF TooFew(extractions.items)
    THEN Return([error |-> <<"Need at least 2 extractions for comparison">>])
    ELSE Compared(CompareBody(extractions.items))

(***************************************************************************)
(* The calls the model makes.                                              *)
(***************************************************************************)
NoValue == [kind |-> "nocall", chars |-> <<>>]
NoData == [kind |-> "nocall", items |-> <<>>]

\* the examples of the specification, longer than MaxLen
Examples ==
    {NOT_FOUND, ERROR,
     <<"P", "e", "n", "d", "i", "n", "g", " ", "r", "e", "v", "i", "e", "w">>,
     <<"$", "1", ",", "2", "3", "4", ",", "5", "6", "7", ".", "0", "0">>,
     <<"-", "$", "1", ",", "2", "3", "4", ".", "5", "6">>,
     <<"U", "U", "S", "D", "S", " ", "9", "9", "9", ".", "9", "9", "5">>}

\* attribute names of the short and of the long mappings
ShortAttrs ==
    {"Quoted Amount", "Limit Amount", "Premium due", "Annual Premium", "quoted amount"}

AttrOrder ==
    <<"Quoted Amount", "Limit Amount", "Premium due", "Annual Premium",
      "Total Insured Value", "Attachment Point", "quoted amount">>

ShortValues ==
    {NoneValue, BadTruth, BadStr, BadStrOnly, Str(NOT_FOUND),
     Str(<<"5", "0", "0", "0", "0", "0", "0">>),
     Str(<<"$", "4", ",", "9", "0", "0", ",", "0", "0", "0">>),
     Str(<<"-", "9", ".", "5">>),
     Str(<<"T", "B", "D">>)}

LongValues == {Str(<<"5">>), Str(<<"9">>), Str(<<"T", "B", "D">>)}

Reversed(l) == [i \in 1..Len(l) |-> l[Len(l) + 1 - i]]

\* mappings of every attribute of AttrOrder, in that order or its reverse
LongInputs ==
    {[i \in 1..Len(a) |-> Item(a[i], v[i])] :
        a \in {AttrOrder, Reversed(AttrOrder)},
        v \in [1..Len(AttrOrder) -> LongValues]}

\* raw values of Total Insured Value below, at, inside and above the limits
\* of the range check, and values that are not extracted
TivValues ==
    {Str(<<"-", "5">>),
     Str(<<"0">>),
     Str(<<"5", "0", "0", "0", "0", "0">>),
     Str(<<"$", "9", "9", "9", ",", "9", "9", "9", ".", "9", "9">>),
     Str(<<"1", "0", "0", "0", "0", "0", "0">>),
     Str(<<"1", "0", "0", "0", "0", "0", "0", ".", "0", "1">>),
     Str(<<"5", "0", "0", "0", "0", "0", "0", "0">>),
     Str(<<"9", "9", "9", "9", "9", "9", "9", "9", "9", "9", "9", ".", "9", "9">>),
     Str(<<"1", "0", "0", "0", "0", "0", "0", "0", "0", "0", "0", "0">>),
     Str(<<"1", "0", "0", "0", "0", "0", "0", "0", "0", "0", "0", "0", ".", "0", "1">>),
     Str(<<"$", "2", "0", "0", ",", "0", "0", "0", ",", "0", "0", "0", ",",
           "0", "0", "0">>),
     Str(<<"T", "B", "D">>),
     Str(NOT_FOUND),
     NoneValue}

\* what else a mapping with a Total Insured Value holds: nothing, an equal
\* pair or an unequal pair of amounts
TivCompanions ==
    {<<>>,
     <<Item("Quoted Amount", Str(<<"5", "0", "0", "0", "0", "0", "0">>)),
       Item("Limit Amount", Str(<<"5", "0", "0", "0", "0", "0", "0">>))>>,
     <<Item("Quoted Amount", Str(<<"5", "0", "0", "0", "0", "0", "0">>)),
       Item("Limit Amount", Str(<<"-", "9", ".", "5">>))>>}

\* lines 7-8 of json_formatter.py: the formatter as constructed, before any
\* call, at a clock reading of 0
Constructed ==
    /\ currency_symbol = "$"
    /\ now = 0
    /\ calls = {}

\* line 19 of updated_extractor_router.py: the router as loaded, without
\* requests
Idle ==
    /\ action_agent = None
    /\ attempts = 0
    /\ agents = 0
    /\ requests = <<>>

\* a raw value: a string over Alphabet of at most MaxLen characters, an
\* example, None or a malformed object
InitValue ==
    /\ Constructed
    /\ Idle
    /\ \/ \E n \in 0..MaxLen : \E s \in [1..n -> Alphabet] : value = Str(s)
       \/ \E s \in Examples : value = Str(s)
       \/ value \in {NoneValue, BadTruth, BadStr, BadStrOnly}
    /\ record = None
    /\ extracted_data = NoData
    /\ result = None
    /\ to_validate = NoData
    /\ validation = None
    /\ to_compare = NoData
    /\ comparison = None

\* a mapping: at most MaxShort attributes of ShortAttrs in any order with
\* any values of ShortValues, a long mapping, a mapping with a Total Insured
\* Value, or an argument that is no dict
InitReport ==
    /\ Constructed
    /\ Idle
    /\ value = NoValue
    /\ record = None
    /\ \/ \E n \in 0..MaxShort :
             \E a \in [1..n -> ShortAttrs] : \E v \in [1..n -> ShortValues] :
                 /\ \A i, j \in 1..n : a[i] = a[j] => i = j
                 /\ extracted_data = Dict([i \in 1..n |-> Item(a[i], v[i])])
       \/ \E items \in LongInputs : extracted_data = Dict(items)
       \/ \E t \in TivValues : \E rest \in TivCompanions :
             extracted_data = Dict(rest \o <<Item("Total Insured Value", t)>>)
       \/ extracted_data = NotADict
    /\ result = None
    /\ to_validate = NoData
    /\ validation = None
    /\ to_compare = NoData
    /\ comparison = None

\* the entries of a formatted_data passed to the validator: records of
\* _format_value, a record whose numeric_value is a string, and a raw string
\* where a record should be
TextNumber ==
    [FormatPresent(Str(<<"5">>)) EXCEPT !.numeric_value = Some(Str(<<"5">>))]

ValidateEntries ==
    {FormatPresent(Str(<<"5">>)), FormatPresent(Str(<<"9">>)),
     FormatPresent(Str(<<"T", "B", "D">>)), TextNumber, Str(<<"5">>)}

ValidateAttrs ==
    <<"Quoted Amount", "Limit Amount", "Premium due", "Annual Premium",
      "Total Insured Value">>

\* the items of the chosen attributes of ValidateAttrs, from the i-th on
RECURSIVE ItemsFrom(_, _, _)
ItemsFrom(i, chosen, entry) ==
    IF i > Len(ValidateAttrs) THEN <<>>
    ELSE (IF i \in chosen THEN <<Item(ValidateAttrs[i], entry[i])>> ELSE <<>>)
         \o ItemsFrom(i + 1, chosen, entry)

\* a formatted_data: any attributes of ValidateAttrs with any entries of
\* ValidateEntries, or an argument that is no dict
InitValidate ==
    /\ Constructed
    /\ Idle
    /\ value = NoValue
    /\ record = None
    /\ extracted_data = NoData
    /\ result = None
    /\ \/ \E chosen \in SUBSET (1..Len(ValidateAttrs)) :
             \E entry \in [chosen -> ValidateEntries] :
                 to_validate = Dict(ItemsFrom(1, chosen, entry))
       \/ to_validate = NotADict
    /\ validation = None
    /\ to_compare = NoData
    /\ comparison = None

\* mappings whose reports are compared: two that share an attribute, an
\* empty one, one with a value that is not extracted, one with a single
\* amount, and one whose report is a failure report
SampleMappings ==
    {<<Item("Quoted Amount", Str(<<"5", "0", "0", "0", "0", "0", "0">>)),
       Item("Limit Amount", Str(<<"$", "4", ",", "9", "0", "0", ",", "0", "0", "0">>))>>,
     <<Item("Limit Amount", Str(<<"-", "9", ".", "5">>)),
       Item("Premium due", Str(<<"T", "B", "D">>))>>,
     <<>>,
     <<Item("Total Insured Value", Str(NOT_FOUND))>>,
     <<Item("Limit Amount", Str(<<"9">>))>>,
     <<Item("Quoted Amount", BadTruth)>>}

\* reports as format_extraction_results returns them
SampleReports ==
    {o.value : o \in {p \in {format_extraction_results(Dict(m)) : m \in SampleMappings} :
                         ~p.raised}}

\* a report whose source_files is s
WithSourceFiles(r, s) ==
    [k \in DOMAIN r \cup {"source_files"} |->
        IF k = "source_files" THEN s ELSE r[k]]

\* what else a caller may put in the list: None, a result without
\* extracted_data, reports whose source_files is None or empty, and a
\* report whose entry is a raw string
OtherReports ==
    {NoneObject,
     [error |-> <<"Need at least 2 extractions for comparison">>],
     [extracted_data |-> <<Item("Premium due", Str(<<"5">>))>>]}
    \cup {WithSourceFiles(r, s) : r \in SampleReports, s \in {NoneObject, EmptyDict}}

\* a list of at most MaxReports reports, or None
InitCompare ==
    /\ Constructed
    /\ Idle
    /\ value = NoValue
    /\ record = None
    /\ extracted_data = NoData
    /\ result = None
    /\ to_validate = NoData
    /\ validation = None
    /\ \/ \E n \in 0..MaxReports :
             \E l \in [1..n -> SampleReports \cup OtherReports] :
                 to_compare = List(l)
       \/ to_compare = NotAList
    /\ comparison = None

\* no call of the formatter is pending
NoCall ==
    /\ value = NoValue
    /\ record = None
    /\ extracted_data = NoData
    /\ result = None
    /\ to_validate = NoData
    /\ validation = None
    /\ to_compare = NoData
    /\ comparison = None

\* a request as the router receives it; results is the length of the list
\* posted to /compare-extractions
Request(endpoint, results) ==
    [endpoint |-> endpoint, results |-> results, pc |-> "received",
     agent |-> None, status |-> 0, agent_initialized |-> FALSE]

Received ==
    {Request(e, 0) : e \in {"/extract-json", "/status", "/query-data",
                            "/processing-history", "/validate-files",
                            "/clear-data", "/sample-attributes", "/health"}}
    \cup {Request("/compare-extractions", n) : n \in 0..MaxReports}

\* the router as loaded, with at most MaxRequests requests to handle
InitRouter ==
    /\ Constructed
    /\ NoCall
    /\ action_agent = None
    /\ attempts = 0
    /\ agents = 0
    /\ \E n \in 1..MaxRequests : requests \in [1..n -> Received]

Init == InitValue \/ InitReport \/ InitValidate \/ InitCompare \/ InitRouter

\* a call that has ended: the argument as passed, the argument as the call
\* left it, the clock reading and how the call ended
Call(op, argument, after, ended) ==
    [op |-> op, argument |-> argument, after |-> after, at |-> now,
     outcome |-> Get(ended)]

\* a caller runs _format_value(value)
FormatValueCall ==
    /\ value.kind # "nocall"
    /\ IsNone(record)
    /\ record' = Some(_format_value(value))
    /\ UNCHANGED <<fixed, calls, value, extracted_data, result, to_validate,
                   validation, to_compare, comparison, router>>

\* a caller runs format_extraction_results(extracted_data)
FormatExtractionResultsCall ==
    /\ extracted_data.kind # "nocall"
    /\ IsNone(result)
    /\ result' = Some(format_extraction_results(extracted_data))
    /\ UNCHANGED <<fixed, value, record, extracted_data, to_validate, validation,
                   to_compare, comparison, router>>
    /\ calls' = calls \cup {Call("format_extraction_results", extracted_data,
                                 extracted_data', result')}

\* a caller runs _validate_data_consistency(to_validate)
ValidateCall ==
    /\ to_validate.kind # "nocall"
    /\ IsNone(validation)
    /\ validation' = Some(_validate_data_consistency(to_validate))
    /\ UNCHANGED <<fixed, calls, value, record, extracted_data, result,
                   to_validate, to_compare, comparison, router>>

\* a caller runs create_comparison_report(to_compare)
CreateComparisonReportCall ==
    /\ to_compare.kind # "nocall"
    /\ IsNone(comparison)
    /\ comparison' = Some(create_comparison_report(to_compare))
    /\ UNCHANGED <<fixed, value, record, extracted_data, result, to_validate,
                   validation, to_compare, router>>
    /\ calls' = calls \cup {Call("create_comparison_report", to_compare,
                                 to_compare', comparison')}

(***************************************************************************)
(* updated_extractor_router.py.  The handlers are coroutines of one event  *)
(* loop: a handler runs without interruption from one await to the next,   *)
(* and get_action_agent() has no await.  What the agent does is not part   *)
(* of the router: its constructor and its methods either return or raise   *)
(* an Exception.                                                           *)
(***************************************************************************)
library == <<fixed, calls, value, record, extracted_data, result, to_validate,
             validation, to_compare, comparison>>

\* the test of line 24 with the router constructing an agent for each request
NeedsConstructionAlways(agent) == TRUE

\* line 24
NeedsConstruction(agent) == IsNone(agent)

\* lines 21-33, get_action_agent(): the global after the call, where
\* constructs tells whether ActionChatAgent() returns; the call returns
\* the global when it is set and raises HTTPException(500) otherwise
GetActionAgent(constructs) ==
    IF NeedsConstruction(action_agent)
    THEN /\ attempts' = attempts + 1
         /\ agents' = IF constructs THEN agents + 1 ELSE agents
         /\ action_agent' = IF constructs THEN Some(agents + 1)
                                          ELSE action_agent
    ELSE UNCHANGED <<action_agent, attempts, agents>>

\* the handler of request i ends with this status code
Respond(i, status) ==
    requests' = [requests EXCEPT ![i].pc = "done", ![i].status = status]

\* the handler of request i goes on to pc
Goto(i, pc) ==
    requests' = [requests EXCEPT ![i].pc = pc]

\* the handler of request i holds the agent and goes on to pc
Hold(i, agent, pc) ==
    requests' = [requests EXCEPT ![i].pc = pc, ![i].agent = agent]

At(i, endpoint, pc) ==
    /\ requests[i].endpoint = endpoint
    /\ requests[i].pc = pc

\* lines 52-61: the agent is looked up, then the file names are tested
ExtractJson ==
    \E i \in DOMAIN requests : \E constructs, names \in BOOLEAN :
        /\ At(i, "/extract-json", "received")
        /\ GetActionAgent(constructs)
        /\ IF IsNone(action_agent') THEN Respond(i, 500)
           ELSE IF ~names THEN Respond(i, 400)
           ELSE Hold(i, action_agent', "read_excel")
        /\ UNCHANGED library

\* line 64
ExtractJsonReadExcel ==
    \E i \in DOMAIN requests : \E reads \in BOOLEAN :
        /\ At(i, "/extract-json", "read_excel")
        /\ IF reads THEN Goto(i, "read_pdf") ELSE Respond(i, 500)
        /\ UNCHANGED <<library, action_agent, attempts, agents>>

\* lines 65-77
ExtractJsonReadPdf ==
    \E i \in DOMAIN requests : \E reads, empty \in BOOLEAN :
        /\ At(i, "/extract-json", "read_pdf")
        /\ IF ~reads THEN Respond(i, 500)
           ELSE IF empty THEN Respond(i, 400)
           ELSE Goto(i, "process")
        /\ UNCHANGED <<library, action_agent, attempts, agents>>

\* lines 77-90
ExtractJsonProcess ==
    \E i \in DOMAIN requests : \E returns \in BOOLEAN :
        /\ At(i, "/extract-json", "process")
        /\ Respond(i, IF returns THEN 200 ELSE 500)
        /\ UNCHANGED <<library, action_agent, attempts, agents>>

\* a handler that looks the agent up and calls one method of it: every
\* exception, the one of get_action_agent() included, ends in status 500
AgentRequest(i, endpoint, constructs, returns) ==
    /\ At(i, endpoint, "received")
    /\ GetActionAgent(constructs)
    /\ IF IsNone(action_agent') THEN Respond(i, 500)
       ELSE requests' = [requests EXCEPT ![i].pc = "done",
                                         ![i].agent = action_agent',
                                         ![i].status =
                                             IF returns THEN 200 ELSE 500]
    /\ UNCHANGED library

\* lines 92-106
GetProcessingStatus ==
    \E i \in DOMAIN requests : \E constructs, returns \in BOOLEAN :
        AgentRequest(i, "/status", constructs, returns)

\* lines 108-129
QueryExtractedData ==
    \E i \in DOMAIN requests : \E constructs, returns \in BOOLEAN :
        AgentRequest(i, "/query-data", constructs, returns)

\* lines 157-176
GetProcessingHistory ==
    \E i \in DOMAIN requests : \E constructs, returns \in BOOLEAN :
        AgentRequest(i, "/processing-history", constructs, returns)

\* lines 213-227
ClearProcessingData ==
    \E i \in DOMAIN requests : \E constructs, returns \in BOOLEAN :
        AgentRequest(i, "/clear-data", constructs, returns)

\* the test of line 144 turning away the empty list only
TooFewResultsOnlyEmpty(n) == n < 1

\* line 144
TooFewResults(n) == n < 2

\* lines 131-155: the length is tested before the agent is looked up
CompareMultipleExtractions ==
    \E i \in DOMAIN requests : \E constructs, returns \in BOOLEAN :
        /\ At(i, "/compare-extractions", "received")
        /\ IF TooFewResults(requests[i].results)
           THEN /\ Respond(i, 400)
                /\ UNCHANGED <<action_agent, attempts, agents>>
           ELSE /\ GetActionAgent(constructs)
                /\ IF IsNone(action_agent') THEN Respond(i, 500)
                   ELSE requests' = [requests EXCEPT
                                        ![i].pc = "done",
                                        ![i].agent = action_agent',
                                        ![i].status =
                                            IF returns THEN 200 ELSE 500]
        /\ UNCHANGED library

\* lines 188-190
ValidateInputFiles ==
    \E i \in DOMAIN requests : \E constructs \in BOOLEAN :
        /\ At(i, "/validate-files", "received")
        /\ GetActionAgent(constructs)
        /\ IF IsNone(action_agent') THEN Respond(i, 500)
           ELSE Hold(i, action_agent', "read_excel")
        /\ UNCHANGED library

\* line 193
ValidateInputFilesReadExcel ==
    \E i \in DOMAIN requests : \E reads \in BOOLEAN :
        /\ At(i, "/validate-files", "read_excel")
        /\ IF reads THEN Goto(i, "read_pdf") ELSE Respond(i, 500)
        /\ UNCHANGED <<library, action_agent, attempts, agents>>

\* lines 194-211
ValidateInputFilesReadPdf ==
    \E i \in DOMAIN requests : \E returns \in BOOLEAN :
        /\ At(i, "/validate-files", "read_pdf")
        /\ Respond(i, IF returns THEN 200 ELSE 500)
        /\ UNCHANGED <<library, action_agent, attempts, agents>>

\* lines 229-271
GetSampleAttributes ==
    \E i \in DOMAIN requests :
        /\ At(i, "/sample-attributes", "received")
        /\ Respond(i, 200)
        /\ UNCHANGED <<library, action_agent, attempts, agents>>

\* line 285 answering that the agent is there whatever the global holds
AgentInitializedAlways(agent) == TRUE

\* line 285
AgentInitialized(agent) == ~IsNone(agent)

\* lines 273-286: the global is read, get_action_agent() is not called
HealthCheck ==
    \E i \in DOMAIN requests :
        /\ At(i, "/health", "received")
        /\ requests' = [requests EXCEPT
                            ![i].pc = "done",
                            ![i].status = 200,
                            ![i].agent_initialized =
                                AgentInitialized(action_agent)]
        /\ UNCHANGED <<library, action_agent, attempts, agents>>

Next ==
    \/ FormatValueCall
    \/ FormatExtractionResultsCall
    \/ ValidateCall
    \/ CreateComparisonReportCall
    \/ ExtractJson
    \/ ExtractJsonReadExcel
    \/ ExtractJsonReadPdf
    \/ ExtractJsonProcess
    \/ GetProcessingStatus
    \/ QueryExtractedData
    \/ CompareMultipleExtractions
    \/ GetProcessingHistory
    \/ ValidateInputFiles
    \/ ValidateInputFilesReadExcel
    \/ ValidateInputFilesReadPdf
    \/ ClearProcessingData
    \/ GetSampleAttributes
    \/ HealthCheck

Spec == Init /\ [][Next]_vars

(***************************************************************************)
(* A session: one formatter, constructed once, whose callers pass it       *)
(* mappings and lists of the reports it has returned, call after call,     *)
(* while the clock goes on.  A format_extraction_results call and a        *)
(* create_comparison_report call may be pending together.                  *)
(***************************************************************************)
SessionMappings ==
    {Dict(<<Item("Quoted Amount", Str(<<"5">>))>>),
     Dict(<<Item("Limit Amount", Str(<<"9">>)),
            Item("Quoted Amount", Str(<<"T", "B", "D">>))>>),
     NotADict}

\* the reports the formatter has returned so far
Returned ==
    {c.outcome.value : c \in {d \in calls : /\ d.op = "format_extraction_results"
                                             /\ ~d.outcome.raised}}

SessionInit ==
    /\ Constructed
    /\ Idle
    /\ NoCall

\* a caller passes a mapping to format_extraction_results
PassMapping ==
    /\ Cardinality(calls) < MaxCalls
    /\ extracted_data.kind = "nocall" \/ ~IsNone(result)
    /\ extracted_data' \in SessionMappings
    /\ result' = None
    /\ UNCHANGED <<fixed, calls, value, record, to_validate, validation,
                   to_compare, comparison, router>>

\* a caller passes None, or a list of reports, to create_comparison_report
PassReports ==
    /\ Cardinality(calls) < MaxCalls
    /\ to_compare.kind = "nocall" \/ ~IsNone(comparison)
    /\ \/ to_compare' = NotAList
       \/ \E r \in Returned : to_compare' = List(<<r>>)
       \/ \E r, t \in Returned : to_compare' = List(<<r, t>>)
    /\ comparison' = None
    /\ UNCHANGED <<fixed, calls, value, record, extracted_data, result,
                   to_validate, validation, router>>

\* datetime.now() reads a later time from now on
Tick ==
    /\ now < MaxClock
    /\ now' = now + 1
    /\ UNCHANGED <<currency_symbol, calls, value, record, extracted_data,
                   result, to_validate, validation, to_compare, comparison,
                   router>>

SessionNext ==
    \/ PassMapping
    \/ FormatExtractionResultsCall
    \/ PassReports
    \/ CreateComparisonReportCall
    \/ Tick

SessionSpec == SessionInit /\ [][SessionNext]_vars

(***************************************************************************)
(* Properties.                                                             *)
(***************************************************************************)
\* the _format_value call has returned a record
ValueReturned == ~IsNone(record) /\ ~Get(record).raised
rec == Get(record).value

\* the format_extraction_results call has returned a report
ReportReturned == ~IsNone(result) /\ ~Get(result).raised
report == Get(result).value

NumericIffExtracted(r) ==
    /\ ~IsNone(r.numeric_value) <=> r.status = "extracted"
    /\ r.currency = Some("USD") <=> r.status = "extracted"
    /\ r.currency \in {None, Some("USD")}

\* C1: a record returned by _format_value has a numeric_value if and only if
\* its status is "extracted", and currency "USD" exactly then; so has every
\* entry of extracted_data of every report.
C1_NumericIffExtracted ==
    /\ ValueReturned => NumericIffExtracted(rec)
    /\ ReportReturned =>
          \A i \in 1..Len(report.extracted_data) :
              NumericIffExtracted(report.extracted_data[i].value)

C1_Witness ==
    /\ ReportReturned
    /\ \E i, j \in 1..Len(report.extracted_data) :
          /\ report.extracted_data[i].value.status = "extracted"
          /\ report.extracted_data[j].value.status = "extracted_non_numeric"

IsEmptyOrSentinel(v) ==
    v.kind = "none" \/ (v.kind = "str" /\ v.chars \in {<<>>, NOT_FOUND, ERROR})

\* C2: the status is "not_found" if and only if the raw value is empty, None,
\* "NOT_FOUND" or "ERROR"; then the formatted, numeric and currency fields are
\* empty and raw_value is the input.  No other value, a whitespace-only
\* string or "$" included, gets "not_found".
C2_NotFoundIffEmptyOrSentinel ==
    ValueReturned =>
        /\ rec.status = "not_found" <=> IsEmptyOrSentinel(value)
        /\ rec.status = "not_found" =>
              /\ IsNone(rec.formatted_value)
              /\ IsNone(rec.numeric_value)
              /\ IsNone(rec.currency)
              /\ rec.raw_value = value

C2_Witness ==
    /\ ValueReturned
    /\ value = Str(<<" ", " ">>)
    /\ rec.status = "extracted_non_numeric"

\* the raw string with "$", then ",", then "USD", then "US" removed, trimmed
Cleaned(v) ==
    Strip(Remove(Remove(Remove(Remove(v.chars, <<"$">>), <<",">>),
                        <<"U", "S", "D">>), <<"U", "S">>))

ParsesAsNumber(v) == v.kind = "str" /\ ~IsNone(float(Cleaned(v)))

\* -?\$[0-9,]+\.[0-9]{2}
MatchesCurrencyPattern(s) ==
    LET t == IF s # <<>> /\ Head(s) = "-" THEN Tail(s) ELSE s
        n == Len(t)
    IN /\ n >= 5
       /\ t[1] = "$"
       /\ \A i \in 2..(n - 3) : t[i] \in Digits \cup {","}
       /\ t[n - 2] = "."
       /\ t[n - 1] \in Digits
       /\ t[n] \in Digits

\* C3: a raw value that parses as a signed decimal once "$", ",", "USD" and
\* "US" are removed gets status "extracted", the parsed number as
\* numeric_value and a formatted_value of the form -?$d,ddd.dd; the "-" of a
\* negative number comes before the "$".
C3_NumericFormatted ==
    (ValueReturned /\ ParsesAsNumber(value)) =>
        /\ rec.status = "extracted"
        /\ rec.numeric_value = float(Cleaned(value))
        /\ MatchesCurrencyPattern(Get(rec.formatted_value))
        /\ Get(float(Cleaned(value))).neg =>
              SubSeq(Get(rec.formatted_value), 1, 2) = <<"-", "$">>

\* C4: a raw string that is neither empty nor a sentinel and does not parse
\* as a number once cleaned gets status "extracted_non_numeric", no
\* numeric_value, no currency, and the cleaned string as formatted_value.
C4_NonNumericCleaned ==
    (ValueReturned /\ value.kind = "str" /\ ~IsEmptyOrSentinel(value)
        /\ ~ParsesAsNumber(value)) =>
        /\ rec.status = "extracted_non_numeric"
        /\ IsNone(rec.numeric_value)
        /\ IsNone(rec.currency)
        /\ rec.formatted_value = Some(Cleaned(value))
        /\ rec.raw_value = value

C4_Witness ==
    /\ ValueReturned
    /\ value = Str(<<"U", "S", "D", "-">>)
    /\ rec.formatted_value = Some(<<"-">>)

\* C5: format_extraction_results never raises; it returns a report with
\* success true, or one with success false, no extracted_data and validation
\* status "failed".
C5_NeverRaises ==
    ~IsNone(result) =>
        /\ ~Get(result).raised
        /\ \/ report.success
           \/ /\ report.extracted_data = <<>>
              /\ report.validation.status = "failed"

C5_Witness ==
    /\ ReportReturned
    /\ ~report.success
    /\ extracted_data.kind = "dict"
    /\ Len(extracted_data.items) = 2

NormalizationFails(v) == v.kind \in {"badtruth", "badstr", "badstr_only"}

\* C6: a value whose normalization fails gets status "format_error", with
\* raw_value kept and the typed fields empty, in a report with success true
\* where every other attribute of the input is normalized as well.
C6_FailureContained ==
    (~IsNone(result) /\ extracted_data.kind = "dict") =>
        /\ ~Get(result).raised
        /\ report.success
        /\ Len(report.extracted_data) = Len(extracted_data.items)
        /\ \A i \in 1..Len(extracted_data.items) :
              LET given == extracted_data.items[i]
                  out == report.extracted_data[i]
              IN /\ out.attribute = given.attribute
                 /\ out.value.raw_value = given.value
                 /\ NormalizationFails(given.value) <=> out.value.status = "format_error"
                 /\ out.value.status = "format_error" =>
                       /\ IsNone(out.value.formatted_value)
                       /\ IsNone(out.value.numeric_value)
                       /\ IsNone(out.value.currency)

SuccessReturned == ReportReturned /\ report.success

ExtractedEntries == {i \in 1..Len(report.extracted_data) :
                        report.extracted_data[i].value.status = "extracted"}

Distance(m, n) == IF m < n THEN n - m ELSE m - n

\* C7: total_attributes_processed counts the entries of extracted_data,
\* successful_extractions those with status "extracted", never more than the
\* total; extraction_rate is "0%" without entries and otherwise
\* successful/total*100 to one decimal, followed by "%".
C7_SummaryCounts ==
    SuccessReturned =>
        LET total == Len(report.extracted_data)
            successful == Cardinality(ExtractedEntries)
        IN /\ report.summary.total_attributes_processed = total
           /\ report.summary.successful_extractions = successful
           /\ report.summary.successful_extractions
                 <= report.summary.total_attributes_processed
           /\ total = 0 => report.summary.extraction_rate = <<"0", "%">>
           /\ total > 0 =>
                 \E t \in 0..1000 :
                     /\ 2 * Distance(1000 * successful, t * total) <= total
                     /\ report.summary.extraction_rate =
                           NatText(t \div 10) \o <<".", DigitChar(t % 10), "%">>

C7_Witness ==
    /\ SuccessReturned
    /\ report.summary.total_attributes_processed = 7
    /\ report.summary.successful_extractions = 2
    /\ report.summary.extraction_rate = <<"2", "8", ".", "6", "%">>

\* where attribute a stands in the iteration of extracted_data
Position(a) == CHOOSE i \in 1..Len(report.extracted_data) :
                   report.extracted_data[i].attribute = a

NumericOf(i) == Get(report.extracted_data[i].value.numeric_value)

StandardKeys == {key_mappings[i].value : i \in 1..Len(key_mappings)}

\* C9: key_insurance_metrics has the standardized key of a canonical label if
\* and only if that very label is an attribute with status "extracted"; the
\* entry carries that attribute's numeric_value and formatted_value; no other
\* key appears, and an absent or non-extracted label is no error.
C9_KeyMetrics ==
    (/\ ~IsNone(result)
     /\ extracted_data.kind = "dict"
     /\ \A i \in 1..Len(extracted_data.items) :
           extracted_data.items[i].value.kind \in {"none", "str", "badstr_only"}) =>
        /\ SuccessReturned
        /\ "key_insurance_metrics" \in DOMAIN report.summary
        /\ LET metrics == report.summary.key_insurance_metrics
           IN /\ DOMAIN metrics \subseteq StandardKeys
              /\ Cardinality(StandardKeys) = 9
              /\ \A i \in 1..Len(key_mappings) :
                    LET label == key_mappings[i].attribute
                        key == key_mappings[i].value
                        hits == {j \in ExtractedEntries :
                                    report.extracted_data[j].attribute = label}
                    IN /\ key \in DOMAIN metrics <=> hits # {}
                       /\ \A j \in hits :
                             /\ metrics[key].value =
                                   report.extracted_data[j].value.numeric_value
                             /\ metrics[key].formatted =
                                   report.extracted_data[j].value.formatted_value

C9_Witness ==
    /\ SuccessReturned
    /\ DOMAIN report.summary.key_insurance_metrics = {"limit_amount"}
    /\ \E i, j \in 1..Len(report.extracted_data) :
          /\ report.extracted_data[i].attribute = "quoted amount"
          /\ report.extracted_data[i].value.status = "extracted"
          /\ report.extracted_data[j].attribute = "Limit Amount"

\* attributes first and second are both extracted numerics of the report
BothExtracted(first, second) ==
    \E i, j \in ExtractedEntries :
        /\ report.extracted_data[i].attribute = first
        /\ report.extracted_data[j].attribute = second

SameNumber(first, second) ==
    FloatEq(NumericOf(Position(first)), NumericOf(Position(second)))

ChecksOf(first, second) ==
    {i \in 1..Len(report.validation.consistency_checks) :
        report.validation.consistency_checks[i].check = first \o " vs " \o second}

WarningsOf(first) ==
    {i \in 1..Len(report.validation.warnings) :
        report.validation.warnings[i][1] = first \o " ("}

RuleAddsOneItem(first, second) ==
    LET checks == ChecksOf(first, second)
        warnings == WarningsOf(first)
    IN IF ~BothExtracted(first, second)
       THEN checks = {} /\ warnings = {}
       ELSE IF SameNumber(first, second)
       THEN /\ Cardinality(checks) = 1
            /\ \A i \in checks :
                  report.validation.consistency_checks[i].status = "consistent"
            /\ warnings = {}
       ELSE checks = {} /\ Cardinality(warnings) = 1

\* C10: Rule A (Quoted Amount, Limit Amount) and Rule B (Premium due, Annual
\* Premium) each add one "consistent" check and no warning when both
\* attributes are extracted and equal, one warning and no check when they are
\* extracted and differ, and nothing otherwise; unequal Quoted and Limit
\* amounts with no other warning give the status "warnings".
C10_EqualityRules ==
    SuccessReturned =>
        /\ RuleAddsOneItem("Quoted Amount", "Limit Amount")
        /\ RuleAddsOneItem("Premium due", "Annual Premium")
        /\ Len(report.validation.consistency_checks) =
              Cardinality(ChecksOf("Quoted Amount", "Limit Amount"))
              + Cardinality(ChecksOf("Premium due", "Annual Premium"))
        /\ (/\ BothExtracted("Quoted Amount", "Limit Amount")
            /\ ~SameNumber("Quoted Amount", "Limit Amount")
            /\ Len(report.validation.warnings) = 1) =>
              report.validation.status = "warnings"

C10_Witness ==
    /\ SuccessReturned
    /\ BothExtracted("Quoted Amount", "Limit Amount")
    /\ ~SameNumber("Quoted Amount", "Limit Amount")
    /\ Len(report.validation.warnings) = 1
    /\ report.validation.consistency_checks = <<>>
    /\ report.validation.status = "warnings"

FormattedOf(a) == Get(report.extracted_data[Position(a)].value.formatted_value)

\* the warning of an equality rule, written with the formatted_value strings
NamesFormattedValues(first, second) ==
    (BothExtracted(first, second) /\ ~SameNumber(first, second)) =>
        \E i \in 1..Len(report.validation.warnings) :
            report.validation.warnings[i] =
                <<first \o " (">> \o FormattedOf(first)
                \o <<") differs from " \o second \o " (">>
                \o FormattedOf(second) \o <<")">>

\* C11: when Rule A or Rule B finds two extracted values unequal, its warning
\* reads "<first> (<f1>) differs from <second> (<f2>)" where f1 and f2 are
\* exactly the formatted_value strings of the two attributes, negative values
\* included.
C11_WarningNamesFormattedValues ==
    SuccessReturned =>
        /\ NamesFormattedValues("Quoted Amount", "Limit Amount")
        /\ NamesFormattedValues("Premium due", "Annual Premium")

\* the limits of the sanity range of Total Insured Value
RangeLow == Whole(<<1, 0, 0, 0, 0, 0, 0>>)
RangeHigh == Whole(<<1, 0, 0, 0, 0, 0, 0, 0, 0, 0, 0, 0>>)

TivExtracted ==
    \E i \in ExtractedEntries : report.extracted_data[i].attribute = "Total Insured Value"

SeemsLow ==
    {i \in 1..Len(report.validation.warnings) :
        report.validation.warnings[i][1] = "Total Insured Value seems low: "}

SeemsVeryHigh ==
    {i \in 1..Len(report.validation.warnings) :
        report.validation.warnings[i][1] = "Total Insured Value seems very high: "}

\* C12: an extracted Total Insured Value below 1,000,000 adds exactly one
\* "seems low" warning, one above 100,000,000,000 exactly one "seems very
\* high" warning, and one from 1,000,000 to 100,000,000,000 inclusive adds
\* nothing; an absent or not extracted Total Insured Value adds nothing.  The
\* rule never adds a consistency_checks entry, and the validator has no
\* warnings but those of the three rules.
C12_RangeRule ==
    SuccessReturned =>
        /\ IF ~TivExtracted
           THEN SeemsLow = {} /\ SeemsVeryHigh = {}
           ELSE LET tiv == NumericOf(Position("Total Insured Value"))
                IN IF FloatLess(tiv, RangeLow)
                   THEN Cardinality(SeemsLow) = 1 /\ SeemsVeryHigh = {}
                   ELSE IF FloatLess(RangeHigh, tiv)
                   THEN SeemsLow = {} /\ Cardinality(SeemsVeryHigh) = 1
                   ELSE SeemsLow = {} /\ SeemsVeryHigh = {}
        /\ \A i \in 1..Len(report.validation.consistency_checks) :
              report.validation.consistency_checks[i].check
                  \in {"Quoted Amount vs Limit Amount", "Premium due vs Annual Premium"}
        /\ Len(report.validation.warnings) =
              Cardinality(WarningsOf("Quoted Amount"))
              + Cardinality(WarningsOf("Premium due"))
              + Cardinality(SeemsLow) + Cardinality(SeemsVeryHigh)

C12_Witness ==
    /\ SuccessReturned
    /\ TivExtracted
    /\ NumericOf(Position("Total Insured Value")) = RangeHigh
    /\ Len(report.extracted_data) = 3
    /\ report.validation.warnings = <<>>
    /\ Len(report.validation.consistency_checks) = 1

\* the _validate_data_consistency call has ended
Validated == ~IsNone(validation)
outcome == Get(validation).value

\* a formatted_data whose entries are all records with a float or no
\* numeric_value
WellFormed(data) ==
    /\ data.kind = "dict"
    /\ \A i \in 1..Len(data.items) :
          /\ "status" \in DOMAIN data.items[i].value
          /\ \A n \in {data.items[i].value.numeric_value} :
                n = None \/ "neg" \in DOMAIN Get(n)

\* a formatted_data that is no dict or has an entry that is no record
Unreadable(data) ==
    \/ data.kind # "dict"
    \/ \E i \in 1..Len(data.items) : "status" \notin DOMAIN data.items[i].value

\* C13: _validate_data_consistency never raises.  Without an exception inside
\* it the status is "failed" exactly when errors is not empty, "warnings"
\* exactly when errors is empty and warnings is not, and "passed" exactly when
\* both are empty; with an exception inside it the status is "error" and the
\* message of the exception is the last of errors.
C13_ValidationStatus ==
    Validated =>
        /\ ~Get(validation).raised
        /\ outcome.status \in {"passed", "warnings", "failed", "error"}
        /\ WellFormed(to_validate) => outcome.status # "error"
        /\ Unreadable(to_validate) => outcome.status = "error"
        /\ outcome.status # "error" =>
              /\ outcome.status = "failed" <=> outcome.errors # <<>>
              /\ outcome.status = "warnings" <=>
                    (outcome.errors = <<>> /\ outcome.warnings # <<>>)
              /\ outcome.status = "passed" <=>
                    (outcome.errors = <<>> /\ outcome.warnings = <<>>)
        /\ outcome.status = "error" =>
              /\ outcome.errors # <<>>
              /\ outcome.errors[Len(outcome.errors)][1] = "Validation error: "

\* the exception comes after a rule has appended its warning
C13_Witness ==
    /\ Validated
    /\ ~Get(validation).raised
    /\ outcome.status = "error"
    /\ Len(outcome.warnings) = 2
    /\ Len(outcome.errors) = 1

\* the create_comparison_report call has ended
ComparisonEnded == ~IsNone(comparison)

\* the call has returned this value
compared == Get(comparison).value

\* a request to /compare-extractions that has been answered
Answered(r) == r.endpoint = "/compare-extractions" /\ r.pc = "done"

\* C14: create_comparison_report given a list of no or of one report returns
\* a value with an error and without an attribute_comparison, and
\* /compare-extractions answers such a list with status 400.
C14_TooFewReports ==
    /\ (ComparisonEnded /\ to_compare.kind = "list" /\ Len(to_compare.items) < 2) =>
          /\ ~Get(comparison).raised
          /\ "error" \in DOMAIN compared
          /\ "attribute_comparison" \notin DOMAIN compared
    /\ \A i \in DOMAIN requests :
          (Answered(requests[i]) /\ requests[i].results < 2) =>
              requests[i].status = 400

\* a list of one report that could have been compared with another
C14_Witness ==
    /\ ComparisonEnded
    /\ to_compare.kind = "list"
    /\ Len(to_compare.items) = 1
    /\ HasData(to_compare.items[1])
    /\ Len(to_compare.items[1].extracted_data) = 2
    /\ compared = [error |-> <<"Need at least 2 extractions for comparison">>]

\* a report with extracted_data whose entries are records, and with a
\* source_files, if any, that names the pdf file
WellFormedReport(r) ==
    /\ ~IsNoneObject(r)
    /\ HasData(r)
    /\ \A i \in 1..Len(r.extracted_data) : IsRecord(r.extracted_data[i].value)
    /\ "source_files" \in DOMAIN r =>
          /\ ~IsNoneObject(r.source_files)
          /\ "pdf_filename" \in DOMAIN r.source_files

\* the reports of the list are two or more, all well formed
WellFormedReports ==
    /\ to_compare.kind = "list"
    /\ Len(to_compare.items) >= 2
    /\ \A i \in 1..Len(to_compare.items) : WellFormedReport(to_compare.items[i])

\* the elements of l are those of attr in reports: one for each report that
\* has attr, in the order of the reports, with that report's values
ElementsOf(l, attr, reports) ==
    /\ \A i \in 1..Len(reports) :
          Cardinality({k \in 1..Len(l) : l[k].document_index = i - 1}) =
              IF attr \in Keys(reports[i].extracted_data) THEN 1 ELSE 0
    /\ \A k \in 1..Len(l) : l[k].document_index \in 0..(Len(reports) - 1)
    /\ \A k \in 1..(Len(l) - 1) : l[k].document_index < l[k + 1].document_index
    /\ \A k \in 1..Len(l) :
          /\ l[k].value =
                Lookup(reports[l[k].document_index + 1].extracted_data, attr).numeric_value
          /\ l[k].formatted =
                Lookup(reports[l[k].document_index + 1].extracted_data, attr).formatted_value
          /\ l[k].status =
                Lookup(reports[l[k].document_index + 1].extracted_data, attr).status

\* C15: create_comparison_report given two or more well-formed reports
\* returns total_documents as their number and an attribute_comparison whose
\* keys are the attributes of all the reports together; the list of an
\* attribute has one element for each report that has the attribute and none
\* for the others, in increasing document_index, with the numeric_value,
\* formatted_value and status of that report.
C15_Comparison ==
    (ComparisonEnded /\ WellFormedReports) =>
        /\ ~Get(comparison).raised
        /\ "error" \notin DOMAIN compared
        /\ compared.total_documents = Len(to_compare.items)
        /\ DOMAIN compared.attribute_comparison =
              UNION {Keys(to_compare.items[i].extracted_data) :
                        i \in 1..Len(to_compare.items)}
        /\ \A attr \in DOMAIN compared.attribute_comparison :
              ElementsOf(compared.attribute_comparison[attr], attr, to_compare.items)

\* three reports of which the first and the third have an attribute and the
\* second does not
C15_Witness ==
    /\ ComparisonEnded
    /\ WellFormedReports
    /\ ~Get(comparison).raised
    /\ Len(to_compare.items) = 3
    /\ \E attr \in DOMAIN compared.attribute_comparison :
          /\ Len(compared.attribute_comparison[attr]) = 2
          /\ compared.attribute_comparison[attr][1].document_index = 0
          /\ compared.attribute_comparison[attr][2].document_index = 2
          /\ compared.attribute_comparison[attr][2].status = "extracted"

\* C16: create_comparison_report never raises; a failure inside it is
\* returned as a value with an error and nothing else.
C16_NeverRaises ==
    ComparisonEnded =>
        /\ ~Get(comparison).raised
        /\ "error" \in DOMAIN compared => DOMAIN compared = {"error"}

\* a result without its timestamp
Unstamped(v) ==
    [k \in DOMAIN v \ {"extraction_timestamp", "comparison_timestamp"} |-> v[k]]

\* two calls ended alike, their timestamps apart
SameOutcome(o, p) ==
    /\ o.raised = p.raised
    /\ IF o.raised THEN o.exc = p.exc
       ELSE Unstamped(o.value) = Unstamped(p.value)

\* C17: in a session of format_extraction_results and
\* create_comparison_report calls, currency_symbol keeps its value, every
\* call leaves its argument as it was passed, and two calls of the same
\* function with the same argument end alike but for the timestamps,
\* whatever calls came before or are pending.
C17_Stateless ==
    /\ currency_symbol = "$"
    /\ \A c \in calls : c.after = c.argument
    /\ \A c, d \in calls :
          (c.op = d.op /\ c.argument = d.argument) =>
              SameOutcome(c.outcome, d.outcome)

\* the same mapping formatted before and after another mapping, at two
\* clock readings
C17_Witness ==
    \E c, d, e \in calls :
        /\ c.op = "format_extraction_results"
        /\ d.op = "format_extraction_results"
        /\ e.op = "format_extraction_results"
        /\ c.argument = d.argument
        /\ c.argument # e.argument
        /\ c.at < d.at
        /\ ~c.outcome.raised
        /\ c.outcome.value.success
        /\ c.outcome.value.extracted_data # <<>>
        /\ ~e.outcome.raised
        /\ e.outcome.value.success
        /\ c.outcome.value.extraction_timestamp # d.outcome.value.extraction_timestamp

\* the agents that get_action_agent() has returned to the handlers
Held == {requests[i].agent : i \in DOMAIN requests} \ {None}

\* once the global holds an agent, a step keeps it and constructs no other
KeepsAgent ==
    ~IsNone(action_agent) =>
        /\ action_agent' = action_agent
        /\ attempts' = attempts
        /\ agents' = agents

\* C18: whatever the requests and however their handlers interleave at the
\* awaits, ActionChatAgent() returns an agent at most once; from then on the
\* global holds that agent, every get_action_agent() call returns it without
\* constructing another, and no handler sets the global back to None.
C18_Singleton ==
    /\ [](/\ agents <= 1
          /\ action_agent = (IF agents = 0 THEN None ELSE Some(1))
          /\ Held \subseteq {action_agent})
    /\ [][KeepsAgent]_vars

\* two handlers hold the one agent, the first of them waiting at an await
\* while the second has answered
C18_Witness ==
    /\ Len(requests) = 2
    /\ requests[1].endpoint = "/extract-json"
    /\ requests[1].pc = "process"
    /\ requests[2].endpoint = "/status"
    /\ requests[2].status = 200
    /\ requests[1].agent = Some(1)
    /\ requests[2].agent = Some(1)
    /\ attempts = 1

\* the handler of r calls get_action_agent() in its first step
LooksUpAgent(r) ==
    \/ r.endpoint \in {"/extract-json", "/status", "/query-data",
                       "/processing-history", "/validate-files", "/clear-data"}
    \/ r.endpoint = "/compare-extractions" /\ r.results >= 2

\* the handler of request i takes its first step
Starts(i) == requests[i].pc = "received" /\ requests'[i].pc # "received"

\* a step in which ActionChatAgent() raises leaves the global None and ends
\* the request that called it with status 500
FailureAnswered ==
    (attempts' = attempts + 1 /\ agents' = agents) =>
        /\ action_agent' = None
        /\ \E i \in DOMAIN requests :
              /\ Starts(i)
              /\ LooksUpAgent(requests[i])
              /\ requests'[i].pc = "done"
              /\ requests'[i].status = 500

\* a handler that looks the agent up while the global is None calls
\* ActionChatAgent(), whatever failed before
Retried ==
    \A i \in DOMAIN requests :
        (Starts(i) /\ LooksUpAgent(requests[i]) /\ IsNone(action_agent)) =>
            attempts' = attempts + 1

\* /health leaves the global and the constructor alone and tells whether an
\* agent has been constructed
HealthReports ==
    \A i \in DOMAIN requests :
        (Starts(i) /\ requests[i].endpoint = "/health") =>
            /\ UNCHANGED <<action_agent, attempts, agents>>
            /\ requests'[i].status = 200
            /\ requests'[i].agent_initialized = (agents >= 1)

\* C19: when ActionChatAgent() raises in get_action_agent(), the global stays
\* None and the request ends with status 500; the next request that looks
\* the agent up calls ActionChatAgent() again; /health never calls it and
\* answers agent_initialized true exactly when an earlier call has returned
\* an agent.
C19_Retry == [][FailureAnswered /\ Retried /\ HealthReports]_vars

\* a first request ended with 500 on a failed construction, a second one
\* constructed the agent
C19_Witness ==
    /\ Len(requests) = 2
    /\ attempts = 2
    /\ agents = 1
    /\ requests[1].endpoint = "/status"
    /\ requests[1].status = 500
    /\ requests[1].agent = None
    /\ requests[2].endpoint = "/status"
    /\ requests[2].agent = Some(1)
    /\ action_agent = Some(1)

\* the attribute names of a dict, in its order
Names(d) == [i \in 1..Len(d) |-> d[i].attribute]

\* C20: in a report that format_extraction_results returns,
\* validation.status is "failed" exactly when success is false; a report
\* with success true has a validation.status of "passed" or "warnings", no
\* errors, and in extracted_data the attribute names of the mapping passed.
C20_FailedIffNoSuccess ==
    ReportReturned =>
        /\ report.validation.status = "failed" <=> ~report.success
        /\ report.success =>
              /\ report.validation.status \in {"passed", "warnings"}
              /\ report.validation.errors = <<>>
              /\ extracted_data.kind = "dict"
              /\ Names(report.extracted_data) = Names(extracted_data.items)

\* a success report whose validation has a warning
C20_Witness ==
    /\ SuccessReturned
    /\ report.validation.status = "warnings"
    /\ report.validation.errors = <<>>
    /\ Len(report.validation.warnings) = 1
    /\ Len(report.extracted_data) = 2
    /\ Names(report.extracted_data) = Names(extracted_data.items)
====
